---- MODULE Spec2Model ----
(***************************************************************************)
(* A model of cube/main.cpp: an N x N x N puzzle stored as a flat vector   *)
(* of N^3 pieces, each piece an array of six colour slots, with a layer    *)
(* rotation (flip + transpose + piece reorientation), a validator, a move  *)
(* string interpreter (perform) and a scramble generator (random_moves).   *)
(***************************************************************************)
EXTENDS Integers, Sequences, FiniteSets, TLC

VARIABLES
    cubeSize,   \* size_t cubeSize: pieces along one edge
    cube,       \* Cube c: index -> Piece, the current cube
    prev,       \* the cube before the last operation (history)
    op,         \* the last operation and its arguments (history)
    nmoves,     \* number of operations applied so far
    pce,        \* a Piece handed to piece::rotate
    pcePrev,    \* the piece before the last piece::rotate (history)
    pc,         \* position of main: "random_moves", "perform", "done"
    ss,         \* std::stringstream ss of random_moves: a sequence of chars
    tokens,     \* std::vector<std::string> tokens of perform, not yet applied
    length      \* size_t length: number of moves random_moves emits

vars == <<cubeSize, cube, prev, op, nmoves, pce, pcePrev, pc, ss, tokens, length>>

----------------------------------------------------------------------------
(* Bounds of the model *)

MaxSize == 3        \* largest cubeSize explored
MaxMoves == 2       \* longest sequence of operations applied to one cube
MaxSuffixLen == 2   \* longest suffix of a move token
MaxLength == 2      \* largest scramble length given to random_moves

----------------------------------------------------------------------------
(* enum class Axis, Color, Face *)

X == 0
Y == 1
Z == 2
Axes == {X, Y, Z}

White == 0
Orange == 1
Green == 2
Red == 3
Blue == 4
Yellow == 5
None == 6
Colors == {White, Orange, Green, Red, Blue, Yellow, None}

Top == 0
Left == 1
Front == 2
Right == 3
Back == 4
Bottom == 5
Faces == {Top, Left, Front, Right, Back, Bottom}

\* struct Layer
Layer(a, i) == [axis |-> a, index |-> i]

layer_left(n) == Layer(X, 0)
layer_right(n) == Layer(X, n - 1)
layer_bottom(n) == Layer(Y, 0)
\* the top layer taken at depth 0, where the bottom layer is
layer_top_AtZero(n) == Layer(Y, 0)
layer_top(n) == Layer(Y, n - 1)
layer_front(n) == Layer(Z, 0)
layer_back(n) == Layer(Z, n - 1)

layer(face, n) ==
    CASE face = Top -> layer_top(n)
      [] face = Left -> layer_left(n)
      [] face = Front -> layer_front(n)
      [] face = Right -> layer_right(n)
      [] face = Back -> layer_back(n)
      [] face = Bottom -> layer_bottom(n)

default_color(f) ==
    CASE f = Top -> White
      [] f = Left -> Orange
      [] f = Front -> Green
      [] f = Right -> Red
      [] f = Back -> Blue
      [] f = Bottom -> Yellow

----------------------------------------------------------------------------
(* namespace piece: a Piece is std::array<Color, 6>, indexed by Face *)

default_piece == [f \in Faces |-> None]

default_face(f) == [default_piece EXCEPT ![f] = default_color(f)]

add_default_face(p, f) == [p EXCEPT ![f] = default_color(f)]

has(p, f) == p[f] # None

\* What the uninitialized local `Color prev` of piece::shift may hold when it
\* is first read: a colour, None, or a byte that is no enumerator.
Indeterminate == {White, None, 255}

\* std::swap(p[f], prev) on the pair (p, prev)
SwapSlot(st, f) == [p |-> [st.p EXCEPT ![f] = st.prev], prev |-> st.p[f]]

\* piece::shift without its closing swap: the slot the walk started from
\* keeps what the uninitialized local held
shift_NoClosingSwap(p, faceIndices, clockwise, garbage) ==
    LET s0 == [p |-> p, prev |-> garbage]
        fi == faceIndices
    IN  IF ~clockwise
        THEN SwapSlot(SwapSlot(SwapSlot(SwapSlot(s0,
                 fi[1]), fi[2]), fi[3]), fi[4]).p
        ELSE SwapSlot(SwapSlot(SwapSlot(SwapSlot(s0,
                 fi[4]), fi[3]), fi[2]), fi[1]).p

\* piece::shift: faceIndices is a sequence of four faces, garbage the value
\* the uninitialized local `prev` happens to hold.
shift(p, faceIndices, clockwise, garbage) ==
    LET s0 == [p |-> p, prev |-> garbage]
        fi == faceIndices
    IN  IF ~clockwise
        THEN SwapSlot(SwapSlot(SwapSlot(SwapSlot(SwapSlot(s0,
                 fi[1]), fi[2]), fi[3]), fi[4]), fi[1]).p
        ELSE SwapSlot(SwapSlot(SwapSlot(SwapSlot(SwapSlot(s0,
                 fi[4]), fi[3]), fi[2]), fi[1]), fi[4]).p

\* the face arrays with that of the Y axis listed the other way round
rotate_faces_YReversed(axis) ==
    CASE axis = X -> <<Top, Back, Bottom, Front>>
      [] axis = Y -> <<Front, Right, Back, Left>>
      [] axis = Z -> <<Top, Left, Bottom, Right>>

\* the array of faces piece::rotate cycles for each axis
rotate_faces(axis) ==
    CASE axis = X -> <<Top, Back, Bottom, Front>>
      [] axis = Y -> <<Front, Left, Back, Right>>
      [] axis = Z -> <<Top, Left, Bottom, Right>>

\* piece::rotate
piece_rotate(p, axis, clockwise, garbage) ==
    shift(p, rotate_faces(axis), clockwise, garbage)

----------------------------------------------------------------------------
(* namespace cube *)

\* cube::index; a Coord is a record [x, y, z]
index(n, x, y, z) == (z * n + y) * n + x

indexOf(n, c) == index(n, c.x, c.y, c.z)

isFirstHalf(n, i) == i <= n \div 2

inverseIndex(n, i) == n - 1 - i

\* planeToCube starting the far layers' raster at the near layers' origin
planeToCube_NearOrigin(n, l) ==
    LET fh == isFirstHalf(n, l.index)
    IN  CASE l.axis = X ->
              [begin |-> index(n, l.index, 0, 0),
               xStride |-> (IF fh THEN 1 ELSE -1) * n,
               yStride |-> n * n]
          [] l.axis = Y ->
              [begin |-> index(n, 0, n - 1, n - 1 - l.index),
               xStride |-> 1,
               yStride |-> (IF fh THEN -1 ELSE 1) * n]
          [] l.axis = Z ->
              [begin |-> index(n, 0, n - 1 - l.index, 0),
               xStride |-> IF fh THEN 1 ELSE -1,
               yStride |-> n * n]

\* cube::planeToCube: the captured begin, xStride and yStride of the
\* returned closure.
planeToCube(n, l) ==
    LET fh == isFirstHalf(n, l.index)
    IN  CASE l.axis = X ->
              [begin |-> IF fh THEN index(n, l.index, 0, 0)
                         ELSE index(n, n - 1 - inverseIndex(n, l.index), n - 1, 0),
               xStride |-> (IF fh THEN 1 ELSE -1) * n,
               yStride |-> n * n]
          [] l.axis = Y ->
              [begin |-> IF fh THEN index(n, 0, n - 1, n - 1 - l.index)
                         ELSE index(n, 0, 0, n - 1 - l.index),
               xStride |-> 1,
               yStride |-> (IF fh THEN -1 ELSE 1) * n]
          [] l.axis = Z ->
              [begin |-> IF fh THEN index(n, 0, n - 1 - l.index, 0)
                         ELSE index(n, n - 1, n - 1 - l.index, 0),
               xStride |-> IF fh THEN 1 ELSE -1,
               yStride |-> n * n]

\* The closure planeToCube returns, applied to (lx, ly).  The source adds
\* in size_t, where a negative stride wraps modulo 2^64; the wrapped sum
\* equals the integer sum whenever that sum is not negative.
mapping(n, m, lx, ly) ==
    LET idx == m.begin + (ly * m.yStride) + lx * m.xStride
        z == idx \div (n * n)
        layerIdx == idx - z * n * n
        y == layerIdx \div n
        x == layerIdx % n
    IN  [x |-> x, y |-> y, z |-> z]

\* index(cubeSize, mapping(x, y))
Cell(n, m, lx, ly) == indexOf(n, mapping(n, m, lx, ly))

\* A vector with no element.  Each loop below tests it first, a loop over
\* no cell having nothing to do; TLC thereby evaluates the vector one
\* iteration hands to the next before it descends into that iteration.
Empty(c) == DOMAIN c = {}

\* a loop `for (; i < end; i++) *(rowBegin + i) = add_default_face(*(rowBegin + i), f)`
RECURSIVE addFaceLoop(_, _, _, _, _)
addFaceLoop(c, rowBegin, i, end, f) ==
    IF Empty(c) \/ i >= end THEN c
    ELSE addFaceLoop([c EXCEPT ![rowBegin + i] = add_default_face(c[rowBegin + i], f)],
                     rowBegin, i + 1, end, f)

\* createRow of default_cube: the assignments to the row that starts at
\* rowBegin, in the order the source makes them.
createRow(n, c, rowBegin, hasTopOrBottom, topOrBottom, hasFrontOrBack, frontOrBack) ==
    LET c1 == [c EXCEPT ![rowBegin] = default_face(Left)]
        c2 == [c1 EXCEPT ![rowBegin + n - 1] = default_face(Right)]
        left == [c2 EXCEPT ![rowBegin] = add_default_face(c2[rowBegin], frontOrBack)]
        middle == addFaceLoop(left, rowBegin, 1, n - 1, frontOrBack)
        right == [middle EXCEPT ![rowBegin + n - 1] =
                     add_default_face(middle[rowBegin + n - 1], frontOrBack)]
        c3 == IF hasFrontOrBack THEN right ELSE c2
    IN  IF hasTopOrBottom THEN addFaceLoop(c3, rowBegin, 0, n, topOrBottom) ELSE c3

\* rowIterator of default_cube, as an offset from cube.begin()
rowIterator(n, y, z) == index(n, 0, y, z)

\* the loop `for (y = 1; y < cubeSize - 1; y++) createRow(...)` of createLayer
RECURSIVE createMiddleRows(_, _, _, _, _, _)
createMiddleRows(n, c, y, z, hasTopOrBottom, topOrBottom) ==
    IF Empty(c) \/ y >= n - 1 THEN c
    ELSE createMiddleRows(n,
             createRow(n, c, rowIterator(n, y, z), hasTopOrBottom, topOrBottom, FALSE, Back),
             y + 1, z, hasTopOrBottom, topOrBottom)

\* createLayer of default_cube
createLayer(n, c, z, hasTopOrBottom, topOrBottom) ==
    LET first == createRow(n, c, rowIterator(n, 0, z), hasTopOrBottom, topOrBottom, TRUE, Back)
        middle == createMiddleRows(n, first, 1, z, hasTopOrBottom, topOrBottom)
    IN  createRow(n, middle, rowIterator(n, n - 1, z), hasTopOrBottom, topOrBottom, TRUE, Front)

\* the loop `for (z = 1; z < cubeSize - 1; z++) createLayer(...)` of default_cube
RECURSIVE createMiddleLayers(_, _, _)
createMiddleLayers(n, c, z) ==
    IF Empty(c) \/ z >= n - 1 THEN c
    ELSE createMiddleLayers(n, createLayer(n, c, z, FALSE, Top), z + 1)

\* cube::default_cube
default_cube(n) ==
    LET c0 == [i \in 0 .. (n * n * n - 1) |-> default_piece]
        top == createLayer(n, c0, 0, TRUE, Top)
        middle == createMiddleLayers(n, top, 1)
    IN  createLayer(n, middle, n - 1, TRUE, Bottom)

\* validateSide of cube::validate
validateSide(n, c, m, face) ==
    \A y \in 0 .. (n - 1) : \A x \in 0 .. (n - 1) :
        c[Cell(n, m, x, y)][face] = default_color(face)

\* cube::validate
validate(n, c) ==
    \A face \in Faces : validateSide(n, c, planeToCube(n, layer(face, n)), face)

\* a swap without a temporary: both cells end up holding cube[j]
SwapCells_NoTemporary(c, i, j) == [c EXCEPT ![i] = c[j], ![j] = c[j]]

\* std::swap(cube[i], cube[j])
SwapCells(c, i, j) == [c EXCEPT ![i] = c[j], ![j] = c[i]]

\* a sequence of swaps of cells, applied in order from the k-th on
RECURSIVE ApplySwaps(_, _, _)
ApplySwaps(c, swaps, k) ==
    IF Empty(c) \/ k > Len(swaps) THEN c
    ELSE ApplySwaps(SwapCells(c, swaps[k][1], swaps[k][2]), swaps, k + 1)

\* the flip done vertically whatever the direction
FlipSwaps_AlwaysVertical(n, m, clockwise) ==
    [k \in 1 .. ((n \div 2) * n) |->
        LET y == (k - 1) \div n
            x == (k - 1) % n
        IN  <<Cell(n, m, x, y), Cell(n, m, x, n - 1 - y)>>]

\* step 1.a of cube::rotate: the swaps of the flip loops, in loop order
\* (vertically when clockwise, horizontally otherwise)
FlipSwaps(n, m, clockwise) ==
    LET h == n \div 2
    IN  IF clockwise
        THEN [k \in 1 .. (h * n) |->
                LET y == (k - 1) \div n
                    x == (k - 1) % n
                IN  <<Cell(n, m, x, y), Cell(n, m, x, n - 1 - y)>>]
        ELSE [k \in 1 .. (n * h) |->
                LET y == (k - 1) \div h
                    x == (k - 1) % h
                IN  <<Cell(n, m, x, y), Cell(n, m, n - 1 - x, y)>>]

\* the (x, y) pairs of `for (y = 0; y < N; y++) for (x = 0; x < N; x++)`
Raster(n) == [k \in 1 .. (n * n) |-> [x |-> (k - 1) % n, y |-> (k - 1) \div n]]

\* the transpose loop started at x = y + 2
InTranspose_FromYPlus2(n, xy) == xy.y < n - 1 /\ xy.x >= xy.y + 2

\* the loop test of step 1.b: y < cubeSize - 1 and x from y + 1
InTranspose(n, xy) == xy.y < n - 1 /\ xy.x >= xy.y + 1

\* step 1.b of cube::rotate: the swaps of the transpose loop, in loop order
TransposeSwaps(n, m) ==
    LET pairs == SelectSeq(Raster(n), LAMBDA xy : InTranspose(n, xy))
    IN  [k \in 1 .. Len(pairs) |->
            <<Cell(n, m, pairs[k].x, pairs[k].y), Cell(n, m, pairs[k].y, pairs[k].x)>>]

\* const bool clockwisePiece of cube::rotate
clockwisePiece(n, l) == l.index <= n \div 2

\* step 2 of cube::rotate: every cell the mapping addresses is reoriented,
\* in raster order from the k-th on
RECURSIVE RotatePieces(_, _, _, _, _, _, _)
RotatePieces(n, c, m, axis, clockwise, garbage, k) ==
    IF Empty(c) \/ k > n * n THEN c
    ELSE LET i == Cell(n, m, (k - 1) % n, (k - 1) \div n)
         IN  RotatePieces(n,
                 [c EXCEPT ![i] = piece_rotate(c[i], axis, clockwise, garbage)],
                 m, axis, clockwise, garbage, k + 1)

\* cube::rotate
rotate(n, c, l, clockwise, garbage) ==
    LET m == planeToCube(n, l)
        flipped == ApplySwaps(c, FlipSwaps(n, m, clockwise), 1)
        transposed == ApplySwaps(flipped, TransposeSwaps(n, m), 1)
    IN  RotatePieces(n, transposed, m, l.axis,
                     IF clockwisePiece(n, l) THEN clockwise ELSE ~clockwise,
                     garbage, 1)

----------------------------------------------------------------------------
(* perform and random_moves *)

\* performMove of perform: move is one character
performMove(n, move, clockwise, c, garbage) ==
    CASE move = "F" -> rotate(n, c, layer_front(n), clockwise, garbage)
      [] move = "U" -> rotate(n, c, layer_top(n), clockwise, garbage)
      [] move = "R" -> rotate(n, c, layer_right(n), clockwise, garbage)
      [] move = "B" -> rotate(n, c, layer_back(n), clockwise, garbage)
      [] move = "L" -> rotate(n, c, layer_left(n), clockwise, garbage)
      [] move = "D" -> rotate(n, c, layer_bottom(n), clockwise, garbage)
      [] OTHER -> c

\* computeMove of perform: move is a token, a non-empty sequence of characters
computeMove(n, move, c, garbage) ==
    IF Len(move) = 1
    THEN performMove(n, move[1], TRUE, c, garbage)
    ELSE IF move[2] = "'"
         THEN performMove(n, move[1], FALSE, c, garbage)
         ELSE IF move[2] = "2"
              THEN performMove(n, move[1], TRUE,
                               performMove(n, move[1], TRUE, c, garbage), garbage)
              ELSE c

\* std::istream_iterator<std::string> over the move string: the maximal
\* runs of characters other than the blank, in order
RECURSIVE Tokenize(_, _, _)
Tokenize(str, k, cur) ==
    IF k > Len(str)
    THEN IF cur = <<>> THEN <<>> ELSE <<cur>>
    ELSE IF str[k] = " "
         THEN (IF cur = <<>> THEN <<>> ELSE <<cur>>) \o Tokenize(str, k + 1, <<>>)
         ELSE Tokenize(str, k + 1, Append(cur, str[k]))

\* randomLayer of random_moves, for the value `layer` the distribution drew
randomLayer(l) ==
    CASE l = 0 -> <<"L">>
      [] l = 1 -> <<"R">>
      [] l = 2 -> <<"D">>
      [] l = 3 -> <<"T">>
      [] l = 4 -> <<"F">>
      [] l = 5 -> <<"B">>
      [] OTHER -> <<>>

\* randomTurn of random_moves, for the value `turn` the distribution drew
randomTurn(t) ==
    CASE t = 0 -> <<>>
      [] t = 1 -> <<"'">>
      [] t = 2 -> <<"2">>
      [] OTHER -> <<>>

----------------------------------------------------------------------------
(* The cube under a caller of cube::rotate and of perform's token loop *)

\* the record kept of the last operation
Op(kind, axis, idx, clockwise, token) ==
    [kind |-> kind, axis |-> axis, index |-> idx, clockwise |-> clockwise, token |-> token]

\* the characters a move token is drawn from: the six face letters and one
\* letter perform does not know, then the two suffixes and one other character
FirstChars == {"F", "U", "R", "B", "L", "D", "T"}
SuffixChars == {"'", "2", "x"}

RECURSIVE SeqsUpTo(_, _)
SeqsUpTo(S, k) ==
    IF k = 0 THEN {<<>>}
    ELSE LET shorter == SeqsUpTo(S, k - 1)
         IN  shorter \cup {Append(s, c) : s \in shorter, c \in S}

MoveTokens == {<<f>> \o s : f \in FirstChars, s \in SeqsUpTo(SuffixChars, MaxSuffixLen)}

Init ==
    /\ cubeSize \in 1 .. MaxSize
    /\ cube = default_cube(cubeSize)
    /\ prev = cube
    /\ op = Op("default_cube", X, 0, FALSE, <<>>)
    /\ nmoves = 0
    /\ pce = default_piece
    /\ pcePrev = default_piece
    /\ pc = "idle"
    /\ ss = <<>>
    /\ tokens = <<>>
    /\ length = 0

\* a call cube = cube::rotate(cubeSize, std::move(cube), Layer(axis, i), clockwise)
Rotate ==
    /\ nmoves < MaxMoves
    /\ \E axis \in Axes, i \in 0 .. (cubeSize - 1), clockwise \in BOOLEAN,
          garbage \in Indeterminate :
          /\ cube' = rotate(cubeSize, cube, Layer(axis, i), clockwise, garbage)
          /\ op' = Op("rotate", axis, i, clockwise, <<>>)
    /\ prev' = cube
    /\ nmoves' = nmoves + 1
    /\ UNCHANGED <<cubeSize, pce, pcePrev, pc, ss, tokens, length>>

\* one iteration of perform's loop: c = computeMove(move, std::move(c))
ComputeMove ==
    /\ nmoves < MaxMoves
    /\ \E move \in MoveTokens, garbage \in Indeterminate :
          /\ cube' = computeMove(cubeSize, move, cube, garbage)
          /\ op' = Op("computeMove", X, 0, FALSE, move)
    /\ prev' = cube
    /\ nmoves' = nmoves + 1
    /\ UNCHANGED <<cubeSize, pce, pcePrev, pc, ss, tokens, length>>

Next == Rotate

Spec == Init /\ [][Next]_vars

\* perform's loop over the tokens of a move string, from the k-th token on
RECURSIVE performLoop(_, _, _, _, _)
performLoop(n, toks, k, c, garbage) ==
    IF Empty(c) \/ k > Len(toks) THEN c
    ELSE performLoop(n, toks, k + 1, computeMove(n, toks[k], c, garbage), garbage)

\* perform: moves is the move string, a sequence of characters
perform(n, moves, garbage) ==
    performLoop(n, Tokenize(moves, 1, <<>>), 1, default_cube(n), garbage)

NextPerform == ComputeMove

\* perform fed one token after the other, every token the alphabet allows
SpecPerform == Init /\ [][NextPerform]_vars

----------------------------------------------------------------------------
(* piece::rotate on its own *)

\* the pieces handed to piece::rotate: every subset of the six faces
\* coloured with the faces' default colours
PieceInputs ==
    {[f \in Faces |-> IF f \in S THEN default_color(f) ELSE None] : S \in SUBSET Faces}

InitPiece ==
    /\ pce \in PieceInputs
    /\ pcePrev = pce
    /\ op = Op("piece", X, 0, FALSE, <<>>)
    /\ nmoves = 0
    /\ cubeSize = 1
    /\ cube = <<>>
    /\ prev = <<>>
    /\ pc = "idle"
    /\ ss = <<>>
    /\ tokens = <<>>
    /\ length = 0

\* a call pce = piece::rotate(std::move(pce), axis, clockwise)
PieceRotate ==
    /\ nmoves < MaxMoves
    /\ \E axis \in Axes, clockwise \in BOOLEAN, garbage \in Indeterminate :
          /\ pce' = piece_rotate(pce, axis, clockwise, garbage)
          /\ op' = Op("piece_rotate", axis, 0, clockwise, <<>>)
    /\ pcePrev' = pce
    /\ nmoves' = nmoves + 1
    /\ UNCHANGED <<cubeSize, cube, prev, pc, ss, tokens, length>>

NextPiece == PieceRotate

SpecPiece == InitPiece /\ [][NextPiece]_vars

----------------------------------------------------------------------------
(* main: random_moves, then perform on the scramble *)

\* main after its arguments are parsed: cubeSize is argv[1], length argv[2]
InitMain ==
    /\ cubeSize \in 1 .. MaxSize
    /\ length \in 0 .. MaxLength
    /\ pc = "random_moves"
    /\ ss = <<>>
    /\ tokens = <<>>
    /\ nmoves = 0
    /\ cube = <<>>
    /\ prev = <<>>
    /\ op = Op("main", X, 0, FALSE, <<>>)
    /\ pce = default_piece
    /\ pcePrev = default_piece

\* one iteration of random_moves' loop: ss << randomLayer(ss) << randomTurn(ss) << " "
RandomMoves ==
    /\ pc = "random_moves"
    /\ nmoves < length
    /\ \E l \in 0 .. 5, t \in 0 .. 3 :
          ss' = ss \o randomLayer(l) \o randomTurn(t) \o <<" ">>
    /\ nmoves' = nmoves + 1
    /\ UNCHANGED <<cubeSize, cube, prev, op, pce, pcePrev, pc, tokens, length>>

\* random_moves returns; perform splits the string and builds the solved cube
PerformBegin ==
    /\ pc = "random_moves"
    /\ nmoves = length
    /\ tokens' = Tokenize(ss, 1, <<>>)
    /\ cube' = default_cube(cubeSize)
    /\ prev' = cube'
    /\ op' = Op("default_cube", X, 0, FALSE, <<>>)
    /\ pc' = "perform"
    /\ UNCHANGED <<cubeSize, nmoves, pce, pcePrev, ss, length>>

\* one iteration of perform's loop on the next token of the scramble
PerformStep ==
    /\ pc = "perform"
    /\ tokens # <<>>
    /\ \E garbage \in Indeterminate :
          cube' = computeMove(cubeSize, Head(tokens), cube, garbage)
    /\ prev' = cube
    /\ op' = Op("computeMove", X, 0, FALSE, Head(tokens))
    /\ tokens' = Tail(tokens)
    /\ UNCHANGED <<cubeSize, nmoves, pce, pcePrev, pc, ss, length>>

\* perform returns; main prints the cube and returns 0
PerformEnd ==
    /\ pc = "perform"
    /\ tokens = <<>>
    /\ pc' = "done"
    /\ UNCHANGED <<cubeSize, cube, prev, op, nmoves, pce, pcePrev, ss, tokens, length>>

NextMain == RandomMoves \/ PerformBegin \/ PerformStep \/ PerformEnd

SpecMain == InitMain /\ [][NextMain]_vars

----------------------------------------------------------------------------
(* The properties checked *)

\* the layer of the last cube::rotate
OpLayer == Layer(op.axis, op.index)

\* the cells of the storage a layer's mapping addresses
Cells(n, l) ==
    {Cell(n, planeToCube(n, l), col, row) : col \in 0 .. (n - 1), row \in 0 .. (n - 1)}

\* the coordinates of a cell of the storage, the inverse of cube::index
CoordOf(n, i) == [x |-> i % n, y |-> (i \div n) % n, z |-> i \div (n * n)]

\* C1: after a clockwise cube::rotate of a layer, three more clockwise
\* rotations of that layer give back the cube the first one started from:
\* four clockwise quarter turns are the identity, in every cell and slot.
C1_FourTurns ==
    (op.kind = "rotate" /\ op.clockwise) =>
        \A g \in Indeterminate :
            rotate(cubeSize,
                rotate(cubeSize,
                    rotate(cubeSize, cube, OpLayer, TRUE, g),
                    OpLayer, TRUE, g),
                OpLayer, TRUE, g) = prev

\* a clockwise turn of the far face of a scrambled 3x3x3 cube has changed it
C1_Witness ==
    /\ op.kind = "rotate" /\ op.clockwise
    /\ cubeSize = 3 /\ op.index = 2
    /\ prev # default_cube(cubeSize)
    /\ cube # prev

\* the move string "R R'"
RRPrime == <<"R", " ", "R", "'">>

\* C2: a clockwise cube::rotate of a layer followed by a counter-clockwise
\* one of the same layer gives back the cube; and on the 3x3x3 cube
\* perform("R R'") is the solved cube, on which validate is true.
C2_TurnAndBack ==
    /\ (op.kind = "rotate" /\ op.clockwise) =>
           \A g \in Indeterminate :
               rotate(cubeSize, cube, OpLayer, FALSE, g) = prev
    /\ (op.kind = "default_cube" /\ cubeSize = 3) =>
           \A g \in Indeterminate :
               /\ perform(cubeSize, RRPrime, g) = cube
               /\ validate(cubeSize, perform(cubeSize, RRPrime, g))

\* a clockwise turn of the middle layer of a scrambled 3x3x3 cube
C2_Witness ==
    /\ op.kind = "rotate" /\ op.clockwise
    /\ cubeSize = 3 /\ op.index = 1
    /\ nmoves = 2
    /\ cube # prev

\* C4: validate is true of the cube default_cube builds, for every size
\* from 2 on.
C4_DefaultValid ==
    (op.kind = "default_cube" /\ cubeSize >= 2) => validate(cubeSize, cube)

\* the freshly built 3x3x3 cube, whose centre cell has no colour
C4_Witness ==
    /\ op.kind = "default_cube" /\ cubeSize = 3
    /\ cube[index(3, 1, 1, 1)] = default_piece
    /\ cube[index(3, 0, 0, 0)][Top] = White

\* the plane of the storage a layer lies in: the coordinate that is fixed
\* and its value
PlaneOf(n, l) ==
    CASE l.axis = X -> [coord |-> "x", at |-> l.index]
      [] l.axis = Y -> [coord |-> "z", at |-> n - 1 - l.index]
      [] l.axis = Z -> [coord |-> "y", at |-> n - 1 - l.index]

\* C5: for every layer of the cube, the mapping planeToCube returns yields,
\* over all (col, row), exactly N*N distinct coordinates, each within
\* [0, N), all in the one plane of the storage the layer's axis and depth fix.
C5_MapperBijection ==
    \A axis \in Axes, d \in 0 .. (cubeSize - 1) :
        LET l == Layer(axis, d)
            m == planeToCube(cubeSize, l)
            R == 0 .. (cubeSize - 1)
            coords == {mapping(cubeSize, m, col, row) : col \in R, row \in R}
        IN  /\ Cardinality(coords) = cubeSize * cubeSize
            /\ \A c \in coords : c.x \in R /\ c.y \in R /\ c.z \in R
            /\ \A c \in coords : c[PlaneOf(cubeSize, l).coord] = PlaneOf(cubeSize, l).at

\* a far layer of a 3x3x3 cube, mapped with a negative stride, has been turned
C5_Witness ==
    /\ op.kind = "rotate" /\ cubeSize = 3 /\ op.index = 2
    /\ planeToCube(cubeSize, OpLayer).xStride + planeToCube(cubeSize, OpLayer).yStride < 9
    /\ cube # prev

\* the outer faces a cell of the storage touches, as default_cube lays them out
Touches(n, c) ==
    {f \in Faces :
        \/ f = Left /\ c.x = 0
        \/ f = Right /\ c.x = n - 1
        \/ f = Back /\ c.y = 0
        \/ f = Front /\ c.y = n - 1
        \/ f = Top /\ c.z = 0
        \/ f = Bottom /\ c.z = n - 1}

\* the number of defined slots of a piece
Defined(p) == Cardinality({f \in Faces : has(p, f)})

\* C6: from default_cube(N), N >= 2, after any sequence of rotations every
\* cell holds a piece with as many defined slots as the cell touches outer
\* faces.
C6_SlotCounts ==
    (cubeSize >= 2 /\ op.kind \in {"default_cube", "rotate"}) =>
        \A i \in DOMAIN cube :
            Defined(cube[i]) = Cardinality(Touches(cubeSize, CoordOf(cubeSize, i)))

\* two rotations of a 3x3x3 cube have moved a corner piece
C6_Witness ==
    /\ op.kind = "rotate" /\ cubeSize = 3 /\ nmoves = 2
    /\ cube[0] # default_cube(3)[0]
    /\ Defined(cube[0]) = 3

\* C9: cube::rotate is the quarter turn of the layer's raster: clockwise,
\* cell (col c, row r) gets the piece of (col r, row N-1-c); otherwise that
\* of (col N-1-r, row c); each reoriented once by piece::rotate about the
\* layer's axis; every cell outside the layer is left as it was.
C9_BlockRotation ==
    (op.kind = "rotate") =>
        LET n == cubeSize
            m == planeToCube(n, OpLayer)
            R == 0 .. (n - 1)
            src(c, r) == IF op.clockwise THEN Cell(n, m, r, n - 1 - c)
                         ELSE Cell(n, m, n - 1 - r, c)
        IN  /\ \E dir \in BOOLEAN : \A g \in Indeterminate : \A c \in R, r \in R :
                   cube[Cell(n, m, c, r)] = piece_rotate(prev[src(c, r)], op.axis, dir, g)
            /\ \A i \in DOMAIN cube \ Cells(n, OpLayer) : cube[i] = prev[i]

\* a counter-clockwise turn of a far layer of a scrambled 3x3x3 cube
C9_Witness ==
    /\ op.kind = "rotate" /\ ~op.clockwise
    /\ cubeSize = 3 /\ op.index = 2 /\ nmoves = 2
    /\ prev # default_cube(cubeSize)
    /\ cube # prev

\* the six face letters of the move grammar and the tokens it derives
FaceLetters == {"F", "U", "R", "B", "L", "D"}
Grammar == {<<f>> : f \in FaceLetters} \cup {<<f, t>> : f \in FaceLetters, t \in {"'", "2"}}

\* the cell that lies across the cube from cell i along an axis of rotation
\* (X runs along storage x, Y along storage z, Z along storage y)
Mirror(n, axis, i) ==
    LET c == CoordOf(n, i)
    IN  CASE axis = X -> index(n, n - 1 - c.x, c.y, c.z)
          [] axis = Y -> index(n, c.x, c.y, n - 1 - c.z)
          [] axis = Z -> index(n, c.x, n - 1 - c.y, c.z)

\* the letter of the depth-(N-1) face about each axis, with the letter and
\* the layer of the depth-0 face opposite to it
FacePairs ==
    {[far |-> "R", near |-> "L", axis |-> X],
     [far |-> "U", near |-> "D", axis |-> Y],
     [far |-> "B", near |-> "F", axis |-> Z]}

\* C3: for N >= 2 an un-suffixed face letter turns its face clockwise as
\* seen from outside.  (a) "R" on the solved cube puts the Front colour into
\* the Top slots of the x = N-1 column of the Top face.  (b) About one axis
\* the clockwise turns of the depth-(N-1) face and of the depth-0 face have
\* opposite senses: the far face's turned slab, carried across to the near
\* face and turned clockwise there, is the slab as it was, cell by cell and
\* slot by slot.
C3_OutsideClockwise ==
    (cubeSize >= 2 /\ op.kind = "computeMove") =>
        /\ (op.token = <<"R">> /\ prev = default_cube(cubeSize)) =>
               \A y \in 0 .. (cubeSize - 1) :
                   cube[index(cubeSize, cubeSize - 1, y, 0)][Top] = default_color(Front)
        /\ \A fp \in FacePairs :
               (op.token = <<fp.far>>) =>
                   LET n == cubeSize
                       carried == [i \in DOMAIN cube |-> cube[Mirror(n, fp.axis, i)]]
                   IN  \A g \in Indeterminate :
                           \A i \in Cells(n, Layer(fp.axis, 0)) :
                               computeMove(n, <<fp.near>>, carried, g)[i]
                                   = prev[Mirror(n, fp.axis, i)]

\* C7: a token whose first character is no face letter, or whose suffix is
\* none of the empty suffix, ' and 2, leaves the cube as it was.
C7_MalformedIsNoOp ==
    (op.kind = "computeMove") =>
        LET suffix == Tail(op.token)
        IN  (op.token[1] \notin FaceLetters \/ suffix \notin {<<>>, <<"'">>, <<"2">>})
                => cube = prev

\* C8: every token random_moves has emitted is a token of the move grammar.
C8_ScrambleInGrammar ==
    \A k \in DOMAIN Tokenize(ss, 1, <<>>) : Tokenize(ss, 1, <<>>)[k] \in Grammar

\* the cycle C10 states for each axis
StatedCycle(axis) ==
    CASE axis = X -> <<Top, Back, Bottom, Front>>
      [] axis = Y -> <<Front, Left, Back, Right>>
      [] axis = Z -> <<Top, Left, Bottom, Right>>

\* the place after k in a cycle of four
Succ4(k) == (k % 4) + 1

\* the colours of `before` have moved one place forward along the cycle
\* (the colour in cyc[k] is now in cyc[k+1]) and the other two slots are as
\* they were
MovedForward(before, after, cyc) ==
    /\ \A k \in 1 .. 4 : after[cyc[Succ4(k)]] = before[cyc[k]]
    /\ \A f \in Faces \ {cyc[k] : k \in 1 .. 4} : after[f] = before[f]

\* C10 as stated: piece::rotate with clockwise = true moves the colours
\* forward along the stated cycle (about X the colour in Top moves to Back,
\* ...), with clockwise = false backward; the two slots along the axis stay.
C10_StatedDirection ==
    (op.kind = "piece_rotate") =>
        IF op.clockwise
        THEN MovedForward(pcePrev, pce, StatedCycle(op.axis))
        ELSE MovedForward(pce, pcePrev, StatedCycle(op.axis))

\* C10 amended: piece::rotate with clockwise = true moves the colours
\* backward along the stated cycle (about X the colour in Top moves to
\* Front, Front to Bottom, Bottom to Back, Back to Top; about Y Front to
\* Right, Right to Back, Back to Left, Left to Front; about Z Top to Right,
\* Right to Bottom, Bottom to Left, Left to Top), with clockwise = false
\* forward; the two slots along the axis stay, undefined slots move like
\* defined ones, and no slot ever holds what the uninitialized local held.
C10_ReverseDirection ==
    (op.kind = "piece_rotate") =>
        /\ IF op.clockwise
           THEN MovedForward(pce, pcePrev, StatedCycle(op.axis))
           ELSE MovedForward(pcePrev, pce, StatedCycle(op.axis))
        /\ \A f \in Faces : pce[f] \in Colors

\* a piece with colours on Top and Front only has been rotated clockwise
\* about X: the Top colour is now in Front and the Front colour in Bottom
C10_Witness ==
    /\ op.kind = "piece_rotate" /\ op.clockwise /\ op.axis = X
    /\ pcePrev = add_default_face(default_face(Top), Front)
    /\ pce[Front] = White /\ pce[Bottom] = Green
    /\ ~has(pce, Top) /\ ~has(pce, Back)

====
